---- MODULE Spec2Model ----
(***************************************************************************)
(* Model of app.py: the Streamlit PDF merger.                              *)
(*                                                                         *)
(* One interaction cycle is one run of main(): a user event changes a      *)
(* widget, the script reruns top to bottom, and everything the previous    *)
(* run displayed is replaced.  merge_pdfs is modelled step by step (one    *)
(* step per loop iteration, one per statement that can raise) so that its  *)
(* exit paths are separate behaviours.  Spec explores many uploads with a   *)
(* few passwords, SpecPw few uploads with every password up to MaxPwLen.   *)
(*                                                                         *)
(* Library behaviour the model relies on:                                  *)
(*  - st.file_uploader returns the uploaded files in upload order and      *)
(*    does not reject two files with the same name;                        *)
(*  - sort_items(items) is called without a key, so the component keeps    *)
(*    the user's order while it is called with the same items and starts   *)
(*    again from its default (the items as passed) when they differ; in    *)
(*    single-container mode the user can only permute the items;           *)
(*  - widgets that a run does not render lose their state;                 *)
(*  - PdfWriter.append raises PdfReadError for a source it cannot parse.   *)
(***************************************************************************)
EXTENDS Integers, Sequences, FiniteSets, TLC

\* ------------------------------------------------------------------ bounds
MaxFiles == 3      \* uploaded files at a time, Spec
MaxPwFiles == 2    \* uploaded files at a time, SpecPw
MaxPwLen == 2      \* password length, SpecPw
MaxPages == 2      \* pages of one source

\* ------------------------------------------------------- input alphabets
Names == {"A.pdf", "B.pdf"}
Kinds == {"pdf", "corrupt", "broken"}
Chars == {"P", "w", "1"}

\* A file that cannot be read has no page count.
UploadedFile ==
    {f \in [name : Names, kind : Kinds, npages : 0..MaxPages] :
        f.kind = "pdf" <=> f.npages >= 1}

None == [none |-> TRUE]

Range(s) == {s[i] : i \in DOMAIN s}

Strings == UNION {[1..n -> Chars] : n \in 0..MaxPwLen}

\* the passwords typed under Spec: none, a weak one, an accepted one
SamplePasswords == {<<>>, <<"w", "1">>, <<"P", "1">>}

\* ------------------------------------------------------ validate_password
isupper(char) == char \in {"P"}

isdigit(char) == char \in {"1"}

RECURSIVE any_upper(_)
any_upper(s) ==
    IF s = <<>> THEN FALSE
    ELSE IF isupper(Head(s)) THEN TRUE ELSE any_upper(Tail(s))

RECURSIVE any_digit(_)
any_digit(s) ==
    IF s = <<>> THEN FALSE
    ELSE IF isdigit(Head(s)) THEN TRUE ELSE any_digit(Tail(s))

validate_password_or(password) ==
    IF password = <<>> THEN FALSE
    ELSE any_upper(password) \/ any_digit(password)

validate_password(password) ==
    IF password = <<>> THEN FALSE
    ELSE any_upper(password) /\ any_digit(password)

\* ------------------------------------------------- main: lines 101 to 109
\* file_dict = {file.name: file for file in uploaded_files}: a later file
\* with the same name replaces the value, the key keeps its first position.
LastIndexOf(files, n) ==
    CHOOSE i \in DOMAIN files :
        /\ files[i].name = n
        /\ \A j \in DOMAIN files : files[j].name = n => j <= i

file_dict(files) ==
    [n \in {files[i].name : i \in DOMAIN files} |-> files[LastIndexOf(files, n)]]

IsFirst(files, i) == \A j \in 1..(i - 1) : files[j].name # files[i].name

RECURSIVE KeysUpTo(_, _)
KeysUpTo(files, k) ==
    IF k = 0 THEN <<>>
    ELSE IF IsFirst(files, k)
         THEN Append(KeysUpTo(files, k - 1), files[k].name)
         ELSE KeysUpTo(files, k - 1)

RECURSIVE NamesUpTo(_, _)
NamesUpTo(files, k) ==
    IF k = 0 THEN <<>> ELSE Append(NamesUpTo(files, k - 1), files[k].name)

original_names_list(files) == NamesUpTo(files, Len(files))

original_names(files) == KeysUpTo(files, Len(files))

NoWidget == [items |-> <<>>, value |-> <<>>]

\* sort_items(original_names) as seen from one run to the next.
sort_items(widget, items) ==
    IF widget.items = items THEN widget
    ELSE [items |-> items, value |-> items]

Perms(s) ==
    {p \in [1..Len(s) -> Range(s)] :
        \A i, j \in 1..Len(s) : i # j => p[i] # p[j]}

\* ------------------------------------------------- main: lines 125 to 140
MsgEmpty == "Inga filer finns att sla ihop."
MsgWeak == "Losenordet uppfyller inte kraven."
MsgCorrupt == "Kunde inte lasa en av PDF-filerna."
MsgUnexpected == "Ett ovantat fel uppstod vid sammanslagningen."
MsgDone == "Filerna har slagits ihop!"
MsgDoneLocked == "Filerna har slagits ihop och ar nu losenordsskyddade!"

\* if use_password and not validate_password(password_input)
WeakGate_off(use, pw) == FALSE

WeakGate(use, pw) == use /\ ~validate_password(pw)

\* password_input if use_password else ""
MergeArg_raw(use, pw) == IF use THEN pw ELSE <<"w">>

MergeArg(use, pw) == IF use THEN pw ELSE <<>>

RECURSIVE Resolve(_, _)
Resolve(dict, names) ==
    IF names = <<>> THEN <<>>
    ELSE <<dict[Head(names)]>> \o Resolve(dict, Tail(names))

\* ---------------------------------------------------- merge_pdfs: 61 to 83
PagesOf(f) == [k \in 1..f.npages |-> <<f.name, f.kind, f.npages, k>>]

NewWriter == [pages |-> <<>>, user_password |-> <<>>, closed |-> FALSE]

NewStream == [state |-> "empty", doc |-> None, pos |-> 0]

\* merger.append(pdf_file)
append_front(writer, f) == [writer EXCEPT !.pages = PagesOf(f) \o @]

append(writer, f) == [writer EXCEPT !.pages = @ \o PagesOf(f)]

\* what merger.append raises for a source
AppendOutcome(f) ==
    CASE f.kind = "pdf" -> "ok"
      [] f.kind = "corrupt" -> "PdfReadError"
      [] OTHER -> "Exception"

\* if password: merger.encrypt(password)
encrypt(writer, pw) ==
    IF pw # <<>> THEN [writer EXCEPT !.user_password = pw] ELSE writer

DocSize(writer) == Len(writer.pages) + 1

\* merger.write(merged_pdf_stream); merged_pdf_stream.seek(0)
write_noseek(stream, writer) ==
    [state |-> "full",
     doc |-> [pages |-> writer.pages, user_password |-> writer.user_password],
     pos |-> DocSize(writer)]

write_seek(stream, writer) ==
    [state |-> "full",
     doc |-> [pages |-> writer.pages, user_password |-> writer.user_password],
     pos |-> 0]

\* the except clauses, in the order they are tried
handler_generic_first(e) == "except Exception"

handler(e) == IF e = "PdfReadError" THEN "except PdfReadError" ELSE "except Exception"

\* what an except clause returns
except_return_stream(stream) == stream

except_return(stream) == None

\* finally: merger.close()
close_on_success(writer, e) ==
    IF e = "none" THEN [writer EXCEPT !.closed = TRUE] ELSE writer

close(writer, e) == [writer EXCEPT !.closed = TRUE]

\* ------------------------------------------------------------------ state
VARIABLES
    uploaded_files,     \* st.file_uploader: sequence of UploadedFile
    sortable,           \* the sort_items component: items it shows, user order
    use_password,       \* st.checkbox
    password_input,     \* st.text_input, "" while the checkbox is off
    lastEvent,          \* the user event that caused the current run
    pc,                 \* position of the current run
    ordered_files,      \* merge_pdfs argument
    password,           \* merge_pdfs argument
    merger,             \* PdfWriter
    merged_pdf_stream,  \* BytesIO
    idx,                \* loop position in ordered_files
    exc,                \* exception in flight or handled
    retval,             \* what merge_pdfs returns
    report,             \* messages shown by this run, in order
    download,           \* data of st.download_button, None if absent
    called              \* merge_pdfs was invoked by this run

vars == <<uploaded_files, sortable, use_password, password_input, lastEvent,
          pc, ordered_files, password, merger, merged_pdf_stream, idx, exc,
          retval, report, download, called>>

ui == <<uploaded_files, sortable, use_password, password_input>>

locals == <<ordered_files, password, merger, merged_pdf_stream, idx, exc, retval>>

sorted_names == sortable.value

NoLocals ==
    /\ ordered_files' = <<>>
    /\ password' = <<>>
    /\ merger' = NewWriter
    /\ merged_pdf_stream' = NewStream
    /\ idx' = 0
    /\ exc' = "none"
    /\ retval' = None

Init ==
    /\ uploaded_files = <<>>
    /\ sortable = NoWidget
    /\ use_password = FALSE
    /\ password_input = <<>>
    /\ lastEvent = "load"
    /\ pc = "idle"
    /\ ordered_files = <<>>
    /\ password = <<>>
    /\ merger = NewWriter
    /\ merged_pdf_stream = NewStream
    /\ idx = 0
    /\ exc = "none"
    /\ retval = None
    /\ report = <<>>
    /\ download = None
    /\ called = FALSE

\* A run that does not press the button: nothing of the previous run's
\* output remains, the widgets below "if uploaded_files:" exist only while
\* there are files.
Rerun(files, use, pw, event) ==
    /\ uploaded_files' = files
    /\ sortable' = IF files = <<>> THEN NoWidget
                   ELSE sort_items(sortable, original_names(files))
    /\ use_password' = IF files = <<>> THEN FALSE ELSE use
    /\ password_input' = IF files = <<>> \/ ~use THEN <<>> ELSE pw
    /\ lastEvent' = event
    /\ report' = <<>>
    /\ download' = None
    /\ called' = FALSE
    /\ NoLocals
    /\ UNCHANGED pc

UploadUpTo(max) ==
    /\ pc = "idle"
    /\ Len(uploaded_files) < max
    /\ \E f \in UploadedFile :
          Rerun(Append(uploaded_files, f), use_password, password_input, "edit")

Upload == UploadUpTo(MaxFiles)

UploadFew == UploadUpTo(MaxPwFiles)

RemoveAt(s, i) == SubSeq(s, 1, i - 1) \o SubSeq(s, i + 1, Len(s))

Remove ==
    /\ pc = "idle"
    /\ \E i \in DOMAIN uploaded_files :
          Rerun(RemoveAt(uploaded_files, i), use_password, password_input, "edit")

Reorder ==
    /\ pc = "idle"
    /\ uploaded_files # <<>>
    /\ \E p \in Perms(sortable.items) :
          /\ p # sortable.value
          /\ sortable' = [sortable EXCEPT !.value = p]
          /\ lastEvent' = "reorder"
          /\ report' = <<>>
          /\ download' = None
          /\ called' = FALSE
          /\ NoLocals
          /\ UNCHANGED <<uploaded_files, use_password, password_input, pc>>

ToggleCheckbox ==
    /\ pc = "idle"
    /\ uploaded_files # <<>>
    /\ Rerun(uploaded_files, ~use_password, <<>>, "edit")

TypeFrom(typed) ==
    /\ pc = "idle"
    /\ uploaded_files # <<>>
    /\ use_password
    /\ \E s \in typed :
          /\ s # password_input
          /\ Rerun(uploaded_files, use_password, s, "edit")

TypePassword == TypeFrom(SamplePasswords)

TypeAnyPassword == TypeFrom(Strings)

\* if st.button(...): lines 125 to 140, up to the call of merge_pdfs
Click ==
    /\ pc = "idle"
    /\ uploaded_files # <<>>
    /\ lastEvent' = "click"
    /\ download' = None
    /\ UNCHANGED ui
    /\ IF sorted_names = <<>>
       THEN /\ report' = <<MsgEmpty>>
            /\ called' = FALSE
            /\ NoLocals
            /\ UNCHANGED pc
       ELSE IF WeakGate(use_password, password_input)
       THEN /\ report' = <<MsgWeak>>
            /\ called' = FALSE
            /\ NoLocals
            /\ UNCHANGED pc
       ELSE /\ report' = <<>>
            /\ called' = TRUE
            /\ ordered_files' = Resolve(file_dict(uploaded_files), sorted_names)
            /\ password' = MergeArg(use_password, password_input)
            /\ merger' = NewWriter
            /\ merged_pdf_stream' = NewStream
            /\ idx' = 1
            /\ exc' = "none"
            /\ retval' = None
            /\ pc' = "loop"

\* for pdf_file in ordered_files: merger.append(pdf_file)
AppendStep ==
    /\ pc = "loop"
    /\ idx <= Len(ordered_files)
    /\ LET f == ordered_files[idx] IN
          IF AppendOutcome(f) = "ok"
          THEN /\ merger' = append(merger, f)
               /\ idx' = idx + 1
               /\ UNCHANGED <<pc, exc>>
          ELSE /\ exc' = AppendOutcome(f)
               /\ pc' = "except"
               /\ UNCHANGED <<merger, idx>>
    /\ UNCHANGED <<ui, lastEvent, ordered_files, password, merged_pdf_stream,
                   retval, report, download, called>>

\* if password: merger.encrypt(password)
EncryptStep ==
    /\ pc = "loop"
    /\ idx > Len(ordered_files)
    /\ \/ /\ merger' = encrypt(merger, password)
          /\ pc' = "write"
          /\ UNCHANGED exc
       \/ /\ password # <<>>
          /\ exc' = "Exception"
          /\ pc' = "except"
          /\ UNCHANGED merger
    /\ UNCHANGED <<ui, lastEvent, ordered_files, password, merged_pdf_stream,
                   idx, retval, report, download, called>>

\* merger.write(stream); stream.seek(0); return stream
WriteStep ==
    /\ pc = "write"
    /\ \/ /\ merged_pdf_stream' = write_seek(merged_pdf_stream, merger)
          /\ retval' = merged_pdf_stream'
          /\ pc' = "finally"
          /\ UNCHANGED exc
       \/ /\ merged_pdf_stream' = [merged_pdf_stream EXCEPT !.state = "partial"]
          /\ exc' = "Exception"
          /\ pc' = "except"
          /\ UNCHANGED retval
    /\ UNCHANGED <<ui, lastEvent, ordered_files, password, merger, idx,
                   report, download, called>>

\* except errors.PdfReadError / except Exception
ExceptStep ==
    /\ pc = "except"
    /\ report' = Append(report,
                        IF handler(exc) = "except PdfReadError"
                        THEN MsgCorrupt ELSE MsgUnexpected)
    /\ retval' = except_return(merged_pdf_stream)
    /\ pc' = "finally"
    /\ UNCHANGED <<ui, lastEvent, ordered_files, password, merger,
                   merged_pdf_stream, idx, exc, download, called>>

\* finally: merger.close()
FinallyStep ==
    /\ pc = "finally"
    /\ merger' = close(merger, exc)
    /\ pc' = "returned"
    /\ UNCHANGED <<ui, lastEvent, ordered_files, password, merged_pdf_stream,
                   idx, exc, retval, report, download, called>>

\* if merged_file: st.success(...); st.download_button(...)
AfterMerge ==
    /\ pc = "returned"
    /\ IF retval # None
       THEN /\ report' = Append(report, IF use_password THEN MsgDoneLocked ELSE MsgDone)
            /\ download' = retval
       ELSE UNCHANGED <<report, download>>
    /\ pc' = "idle"
    /\ UNCHANGED <<ui, lastEvent, locals, called>>

Next ==
    \/ Upload
    \/ Remove
    \/ Reorder
    \/ ToggleCheckbox
    \/ TypePassword
    \/ Click
    \/ AppendStep
    \/ EncryptStep
    \/ WriteStep
    \/ ExceptStep
    \/ FinallyStep
    \/ AfterMerge

\* Many files, a few passwords.
Spec == Init /\ [][Next]_vars

NextPw ==
    \/ UploadFew
    \/ Remove
    \/ Reorder
    \/ ToggleCheckbox
    \/ TypeAnyPassword
    \/ Click
    \/ AppendStep
    \/ EncryptStep
    \/ WriteStep
    \/ ExceptStep
    \/ FinallyStep
    \/ AfterMerge

\* Few files, every password up to MaxPwLen.
SpecPw == Init /\ [][NextPw]_vars

\* ------------------------------------------------------------- properties
NameSet(files) == {files[i].name : i \in DOMAIN files}

RECURSIVE ExpectedPages(_, _)
ExpectedPages(files, names) ==
    IF names = <<>> THEN <<>>
    ELSE PagesOf(files[LastIndexOf(files, Head(names))])
            \o ExpectedPages(files, Tail(names))

RECURSIVE SumPages(_, _)
SumPages(files, names) ==
    IF names = <<>> THEN 0
    ELSE files[LastIndexOf(files, Head(names))].npages + SumPages(files, Tail(names))

HasUpperAndDigit(s) ==
    /\ \E i \in DOMAIN s : isupper(s[i])
    /\ \E j \in DOMAIN s : isdigit(s[j])

Failed == called /\ exc # "none" /\ pc \in {"finally", "returned", "idle"}

\* C1: while the loop runs the writer holds the pages of the sources
\* appended so far, in list order and each in its own page order; the
\* document of a successful merge is the concatenation over the whole
\* ordering and has the sum of the sources' page counts.
Thm_C1 ==
    /\ pc = "loop" =>
          merger.pages = ExpectedPages(uploaded_files, SubSeq(sorted_names, 1, idx - 1))
    /\ download # None =>
          /\ download.doc.pages = ExpectedPages(uploaded_files, sorted_names)
          /\ Len(download.doc.pages) = SumPages(uploaded_files, sorted_names)

Wit_C1 ==
    /\ download # None
    /\ Len(sorted_names) >= 2
    /\ sorted_names # sortable.items
    /\ Len(download.doc.pages) >= 3

\* C2: merge_pdfs returns None whenever a step raised, also after sources
\* were already appended; it returns a buffer only after every source was
\* appended and the document was written in full, positioned at offset 0;
\* a failed merge offers no download.
Thm_C2 ==
    /\ pc = "returned" =>
          /\ exc # "none" => retval = None
          /\ retval # None =>
                /\ exc = "none"
                /\ idx = Len(ordered_files) + 1
                /\ retval.state = "full"
                /\ retval.pos = 0
                /\ retval.doc.pages = merger.pages
    /\ Failed => download = None

Wit_C2 ==
    /\ pc = "returned"
    /\ exc # "none"
    /\ merger.pages # <<>>
    /\ retval = None

\* C3: when merge_pdfs has returned, on whichever path, the PdfWriter
\* created at its start is closed.
Thm_C3 ==
    (called /\ pc \in {"returned", "idle"}) => merger.closed

Wit_C3 ==
    /\ pc = "returned"
    /\ exc = "PdfReadError"
    /\ idx > 1
    /\ merger.closed

\* C4: a click with password protection requested and a password that
\* fails validate_password shows the weak-password error only; merge_pdfs
\* is not invoked and no download is offered.
Thm_C4 ==
    (lastEvent = "click" /\ use_password /\ ~validate_password(password_input)) =>
        /\ report = <<MsgWeak>>
        /\ ~called
        /\ pc = "idle"
        /\ download = None

Wit_C4 ==
    /\ lastEvent = "click"
    /\ use_password
    /\ password_input = <<"w", "1">>
    /\ report = <<MsgWeak>>

\* C6: validate_password is false for the empty string and otherwise true
\* exactly when the string has an upper-case letter and a digit, whatever
\* its length.
Thm_C6 ==
    /\ ~validate_password(<<>>)
    /\ validate_password(password_input) <=>
          (password_input # <<>> /\ HasUpperAndDigit(password_input))
    /\ (lastEvent = "click" /\ use_password) =>
          (called <=> HasUpperAndDigit(password_input))

Wit_C6 ==
    /\ lastEvent = "click"
    /\ use_password
    /\ password_input = <<"P", "1">>
    /\ called

Wit_C7_read ==
    /\ pc = "idle"
    /\ called
    /\ exc = "PdfReadError"
    /\ report = <<MsgCorrupt>>

\* C8: merge_pdfs gets a non-empty password only if protection was
\* requested and the password passes the validator, and the empty password
\* if protection was not requested; a produced document is encrypted iff
\* protection was requested, with the password as typed.
Thm_C8 ==
    /\ called =>
          /\ password # <<>> =>
                (use_password /\ HasUpperAndDigit(password_input)
                 /\ password = password_input)
          /\ ~use_password => password = <<>>
    /\ download # None =>
          /\ download.doc.user_password # <<>> <=> use_password
          /\ use_password => download.doc.user_password = password_input

Wit_C8 ==
    /\ download # None
    /\ use_password
    /\ download.doc.user_password = <<"P", "1">>

Wit_C8_plain ==
    /\ download # None
    /\ ~use_password
    /\ download.doc.user_password = <<>>

\* C9: the ordering has no duplicate names, every name in it is the name
\* of a currently uploaded file, and the files handed to merge_pdfs are
\* the ordering's names resolved one by one.
Thm_C9 ==
    /\ \A i, j \in DOMAIN sorted_names : i # j => sorted_names[i] # sorted_names[j]
    /\ Range(sorted_names) \subseteq NameSet(uploaded_files)
    /\ (called /\ pc = "loop") =>
          /\ Len(ordered_files) = Len(sorted_names)
          /\ \A i \in DOMAIN sorted_names :
                /\ ordered_files[i].name = sorted_names[i]
                /\ ordered_files[i] \in Range(uploaded_files)

Wit_C9 ==
    /\ Len(uploaded_files) = 3
    /\ Len(sorted_names) = 2
    /\ sorted_names # sortable.items
    /\ lastEvent = "click"
    /\ called

\* C10: a run that leaves the set of current source names unchanged, and
\* is not itself a reordering by the user, leaves the ordering unchanged.
Claim_C10 ==
    [][(lastEvent' # "reorder" /\ NameSet(uploaded_files') = NameSet(uploaded_files))
          => sorted_names' = sorted_names]_vars

\* The ordering does persist while the list of names handed to sort_items
\* is the same.
OrderKeptForSameItems ==
    [][(lastEvent' # "reorder"
        /\ original_names(uploaded_files') = original_names(uploaded_files))
          => sorted_names' = sorted_names]_vars

\* With a file uploaded the ordering is never empty.
OrderingNonEmpty == uploaded_files # <<>> => sorted_names # <<>>

EmptyReported == MsgEmpty \in Range(report)

====
